---- MODULE Spec2Model ----
(***************************************************************************)
(* grpc_core::Map (src/core/lib/gprpp/map.h): an AVL tree without parent   *)
(* pointers.  Entries live in a heap indexed by address; links are         *)
(* addresses, Null is nullptr.  Every method is translated with the heap   *)
(* threaded through it, so that node identity, pair swaps, cached heights  *)
(* and frees are those of the code.                                        *)
(***************************************************************************)
EXTENDS Integers, Sequences, FiniteSets, TLC

\* ---- bounds ----
MaxKey == 4
MaxVal == 1
MaxLater == 2

\* ---- program constants ----
Null == 0
DefaultValue == 0
InitialHeight == 1

Keys == 1..MaxKey
Values == 1..MaxVal
Addrs == 1..MaxKey

VARIABLES
  heap,      \* address -> Entry, for every allocated and not yet freed Entry
  root_,     \* Map::root_
  size_,     \* Map::size_
  it,        \* curr_ of the iterator the last operation returned (Null = end());
             \* for operator[] the Entry whose second the returned T& refers to;
             \* end() after an operation that returns neither
  lastOp,    \* the public operation that returned last
  argKey,    \* its key argument, or the key at its iterator argument (0: none)
  retBool,   \* the bool of emplace's Pair<iterator, bool>
  retCount,  \* the size_t of erase(key); for clear() the erase steps of its loop
  trace,     \* the branches the last operation took: "RotateLeft", "RotateRight",
             \* "swap" (two-children removal), "Delete", "New"
  inserted,  \* history: key -> value of the first insertion since the key was last absent
  freed,     \* the Entries the last operation passed to Delete, in order
  other_root, \* root_ of a second Map object, other
  other_size, \* size_ of other
  argMaps,   \* where two Maps are in use, <<d, s>>: the Map d (1: this map,
             \* 2: other) whose operation returned last and the Map s it was
             \* given (s = d: none); <<>> where only this map is in use
  later      \* where two Maps are in use, the operations called since a Map was
             \* first constructed or assigned from a Map, that call included

vars == <<heap, root_, size_, it, lastOp, argKey, retBool, retCount, trace, inserted,
          freed, other_root, other_size, argMaps, later>>

\* ---- std::less<Key> and the three-way adapter ----
Compare(a, b) == a < b

CompareKeys(lhs, rhs) ==
  LET left_comparison == Compare(lhs, rhs)
      right_comparison == Compare(rhs, lhs)
  IN IF ~left_comparison /\ ~right_comparison THEN 0
     ELSE IF left_comparison THEN -1 ELSE 1

GPR_MAX(a, b) == IF a > b THEN a ELSE b

\* ---- Entry ----
Entry(k, v) == [first |-> k, second |-> v, left |-> Null, right |-> Null,
                height |-> InitialHeight]

EntryHeight(h, e) == IF e = Null THEN 0 ELSE h[e].height

New(h, e, k, v) == [n \in DOMAIN h \cup {e} |-> IF n = e THEN Entry(k, v) ELSE h[n]]

Delete(h, e) == [n \in DOMAIN h \ {e} |-> h[n]]

RECURSIVE GetMinEntry(_, _)
GetMinEntry(h, e) ==
  IF e # Null /\ h[e].left # Null THEN GetMinEntry(h, h[e].left) ELSE e

\* the while loop of InOrderSuccessor
RECURSIVE SuccessorLoop(_, _, _, _)
SuccessorLoop(h, iter, successor, k) ==
  IF iter = Null THEN successor
  ELSE LET comp == CompareKeys(h[iter].first, k)
       IN IF comp > 0 THEN SuccessorLoop(h, h[iter].left, iter, k)
          ELSE IF comp < 0 THEN SuccessorLoop(h, h[iter].right, successor, k)
          ELSE successor

\* InOrderSuccessor that always re-descends from the root
InOrderSuccessor_NoRightSubtree(h, root, e) ==
  SuccessorLoop(h, root, Null, h[e].first)

InOrderSuccessor(h, root, e) ==
  IF h[e].right # Null THEN GetMinEntry(h, h[e].right)
  ELSE SuccessorLoop(h, root, Null, h[e].first)

\* the while loop of find
RECURSIVE FindLoop(_, _, _)
FindLoop(h, iter, k) ==
  IF iter = Null THEN Null
  ELSE LET comp == CompareKeys(h[iter].first, k)
       IN IF comp = 0 THEN iter
          ELSE IF comp < 0 THEN FindLoop(h, h[iter].right, k)
          ELSE FindLoop(h, h[iter].left, k)

find(h, root, k) == FindLoop(h, root, k)

begin(h, root) == GetMinEntry(h, root)

end == Null

\* e->height = 1 + GPR_MAX(EntryHeight(e->left), EntryHeight(e->right))
UpdateHeight(h, e) ==
  [h EXCEPT ![e].height =
     1 + GPR_MAX(EntryHeight(h, h[e].left), EntryHeight(h, h[e].right))]

\* ---- rotations: [root |-> new subtree root, heap |-> heap after, trace] ----
\* a left rotation that keeps e on top and moves the pairs between the two
\* Entries instead of re-linking them
RotateLeft_SwapsPairs(h, e) ==
  LET rightChild == h[e].right
  IN [root |-> e,
      heap |-> UpdateHeight(UpdateHeight(
                 [h EXCEPT ![e].first = h[rightChild].first,
                           ![e].second = h[rightChild].second,
                           ![e].left = rightChild,
                           ![e].right = h[rightChild].right,
                           ![rightChild].first = h[e].first,
                           ![rightChild].second = h[e].second,
                           ![rightChild].left = h[e].left,
                           ![rightChild].right = h[rightChild].left],
                 rightChild), e),
      trace |-> <<"RotateLeft">>]

\* a left rotation that recomputes only the height of the Entry it moves up
RotateLeft_StaleHeight(h, e) ==
  LET rightChild == h[e].right
      rightLeftChild == h[rightChild].left
  IN [root |-> rightChild,
      heap |-> UpdateHeight([h EXCEPT ![rightChild].left = e, ![e].right = rightLeftChild],
                            rightChild),
      trace |-> <<"RotateLeft">>]

RotateLeft(h, e) ==
  LET rightChild == h[e].right
      rightLeftChild == h[rightChild].left
  IN [root |-> rightChild,
      heap |-> UpdateHeight(
                 UpdateHeight([h EXCEPT ![rightChild].left = e,
                                        ![e].right = rightLeftChild], e),
                 rightChild),
      trace |-> <<"RotateLeft">>]

\* RotateRight taking over the left child's left subtree instead of its right one
RotateRight_WrongGrandchild(h, e) ==
  LET leftChild == h[e].left
      leftLeftChild == h[leftChild].left
  IN [root |-> leftChild,
      heap |-> UpdateHeight(
                 UpdateHeight([h EXCEPT ![leftChild].right = e,
                                        ![e].left = leftLeftChild], e),
                 leftChild),
      trace |-> <<"RotateRight">>]

RotateRight(h, e) ==
  LET leftChild == h[e].left
      leftRightChild == h[leftChild].right
  IN [root |-> leftChild,
      heap |-> UpdateHeight(
                 UpdateHeight([h EXCEPT ![leftChild].right = e,
                                        ![e].left = leftRightChild], e),
                 leftChild),
      trace |-> <<"RotateRight">>]

Prepend(tr, t) == [t EXCEPT !.trace = tr \o @]

\* root->left = RotateLeft(root->left); return RotateRight(root);
\* r is what RotateLeft(root->left) returned
ThenRotateRight(r, root) ==
  Prepend(r.trace, RotateRight([r.heap EXCEPT ![root].left = r.root], root))

RotateLeftRight(h, root) == ThenRotateRight(RotateLeft(h, h[root].left), root)

\* root->right = RotateRight(root->right); return RotateLeft(root);
\* r is what RotateRight(root->right) returned
ThenRotateLeft(r, root) ==
  Prepend(r.trace, RotateLeft([r.heap EXCEPT ![root].right = r.root], root))

RotateRightLeft(h, root) == ThenRotateLeft(RotateRight(h, h[root].right), root)

NoRotation(h, root) == [root |-> root, heap |-> h, trace |-> <<>>]

\* the insertion rebalance without its rotations
InsertionRotations_None(h1, root, k) == NoRotation(h1, root)

\* RebalanceTreeAfterInsertion after its first statement: h1 has root's height set
InsertionRotations(h1, root, k) ==
  LET heightDifference == EntryHeight(h1, h1[root].left) - EntryHeight(h1, h1[root].right)
  IN IF heightDifference > 1 /\ CompareKeys(h1[h1[root].left].first, k) > 0
       THEN RotateRight(h1, root)
     ELSE IF heightDifference < -1 /\ CompareKeys(h1[h1[root].right].first, k) < 0
       THEN RotateLeft(h1, root)
     ELSE IF heightDifference > 1 /\ CompareKeys(h1[h1[root].left].first, k) < 0
       THEN RotateLeftRight(h1, root)
     ELSE IF heightDifference < -1 /\ CompareKeys(h1[h1[root].right].first, k) > 0
       THEN RotateRightLeft(h1, root)
     ELSE NoRotation(h1, root)

RebalanceTreeAfterInsertion(h, root, k) ==
  InsertionRotations(UpdateHeight(h, root), root, k)

\* the rotations of RebalanceTreeAfterDeletion without the look at the heavy
\* child's own balance
DeletionRotations_SingleOnly(h1, root) ==
  LET heightDifference == EntryHeight(h1, h1[root].left) - EntryHeight(h1, h1[root].right)
  IN IF heightDifference > 1 THEN RotateRight(h1, root)
     ELSE IF heightDifference < -1 THEN RotateLeft(h1, root)
     ELSE NoRotation(h1, root)

\* RebalanceTreeAfterDeletion after its first statement: h1 has root's height set
DeletionRotations(h1, root) ==
  LET heightDifference == EntryHeight(h1, h1[root].left) - EntryHeight(h1, h1[root].right)
      leftHeightDifference ==
        EntryHeight(h1, h1[h1[root].left].left) - EntryHeight(h1, h1[h1[root].left].right)
      rightHeightDifference ==
        EntryHeight(h1, h1[h1[root].right].left) - EntryHeight(h1, h1[h1[root].right].right)
  IN IF heightDifference > 1
       THEN IF leftHeightDifference < 0
              THEN RotateLeftRight(h1, root)
              ELSE RotateRight(h1, root)
     ELSE IF heightDifference < -1
       THEN IF rightHeightDifference > 0
              THEN RotateRightLeft(h1, root)
              ELSE RotateLeft(h1, root)
     ELSE NoRotation(h1, root)

RebalanceTreeAfterDeletion(h, root) == DeletionRotations(UpdateHeight(h, root), root)

\* ---- InsertRecursive: [it, root, heap, trace]; e is the address New<Entry> returns ----
\* ret.second = RebalanceTreeAfterInsertion(root, ret.first->first); return ret;
\* r is what the recursive call returned, h1 the heap after re-linking root
InsertUnwind(r, h1, root) ==
  LET b == RebalanceTreeAfterInsertion(h1, root, h1[r.it].first)
  IN [it |-> r.it, root |-> b.root, heap |-> b.heap, trace |-> r.trace \o b.trace,
      failed |-> FALSE]

\* a failure of the recursive call leaves the frame before root->left is written
InsertedLeft(r, root) ==
  IF r.failed THEN r
  ELSE InsertUnwind(r, [r.heap EXCEPT ![root].left = r.root], root)

InsertedRight(r, root) ==
  IF r.failed THEN r
  ELSE InsertUnwind(r, [r.heap EXCEPT ![root].right = r.root], root)

\* what New<Entry> yields instead of an address when the allocation fails
NoMemory == 0 - 1

\* the allocation failed in a frame whose heap is h: no iterator, no subtree
Thrown(h) ==
  [it |-> end, root |-> Null, heap |-> h, trace |-> <<"bad_alloc">>, failed |-> TRUE]

\* return MakePair(iterator(this, e), e); for the Entry e that New returned
Allocated(h, e, k, v) ==
  [it |-> e, root |-> e, heap |-> New(h, e, k, v), trace |-> <<"New">>, failed |-> FALSE]

RECURSIVE InsertRecursive(_, _, _, _, _)
InsertRecursive(h, root, k, v, e) ==
  IF root = Null
    THEN IF e = NoMemory THEN Thrown(h) ELSE Allocated(h, e, k, v)
  ELSE LET comp == CompareKeys(h[root].first, k)
       IN IF comp > 0
            THEN InsertedLeft(InsertRecursive(h, h[root].left, k, v, e), root)
          ELSE IF comp < 0
            THEN InsertedRight(InsertRecursive(h, h[root].right, k, v, e), root)
          ELSE [it |-> root, root |-> root,
                heap |-> [h EXCEPT ![root].first = k, ![root].second = v],
                trace |-> <<>>, failed |-> FALSE]

\* the two-children branch without its swap
SwapPairs_Forgotten(h, a, b) == h

\* a swap of the keys that leaves the values where they were
SwapPairs_KeysOnly(h, a, b) ==
  [h EXCEPT ![a].first = h[b].first, ![b].first = h[a].first]

\* Pair::swap of two Entries' pairs
SwapPairs(h, a, b) ==
  [h EXCEPT ![a].first = h[b].first, ![a].second = h[b].second,
            ![b].first = h[a].first, ![b].second = h[a].second]

\* ---- RemoveRecursive: [it, root, heap, deleted, trace].  The key parameter is a
\* reference into an Entry (kref); it is read where the code reads it. ----
RECURSIVE RemoveRecursive(_, _, _, _)

\* return MakePair(ret.first, RebalanceTreeAfterDeletion(root));
\* r is what the recursive call returned, iter is ret.first, h1 the heap after
\* re-linking root
RemoveUnwind(r, iter, h1, root) ==
  LET b == RebalanceTreeAfterDeletion(h1, root)
  IN [it |-> iter, root |-> b.root, heap |-> b.heap, deleted |-> r.deleted,
      trace |-> r.trace \o b.trace]

RemovedLeft(r, root) == RemoveUnwind(r, r.it, [r.heap EXCEPT ![root].left = r.root], root)

RemovedRight(r, root) == RemoveUnwind(r, r.it, [r.heap EXCEPT ![root].right = r.root], root)

\* root->right = ret.second; ret.first = iterator(this, root);
RemovedSuccessor(r, root) ==
  Prepend(<<"swap">>,
          RemoveUnwind(r, root, [r.heap EXCEPT ![root].right = r.root], root))

\* the two-children branch after the swap: h1 is the heap with the pairs swapped
RemoveSwapped(h1, mapRoot, root, entry) ==
  RemovedSuccessor(RemoveRecursive(h1, mapRoot, h1[root].right, entry), root)

\* the removal that unlinks root and never deletes it
RemoveHere_NoDelete(h, root, successor, entry) ==
  [it |-> successor, root |-> entry, heap |-> h, deleted |-> <<>>, trace |-> <<>>]

\* Delete(root); return MakePair(iterator(this, successor), entry);
RemoveHere(h, root, successor, entry) ==
  [it |-> successor, root |-> entry, heap |-> Delete(h, root), deleted |-> <<root>>,
   trace |-> <<"Delete">>]

RemoveRecursive(h, mapRoot, root, kref) ==
  IF root = Null
    THEN [it |-> end, root |-> root, heap |-> h, deleted |-> <<>>, trace |-> <<>>]
  ELSE LET comp == CompareKeys(h[root].first, h[kref].first)
       IN IF comp > 0
            THEN RemovedLeft(RemoveRecursive(h, mapRoot, h[root].left, kref), root)
          ELSE IF comp < 0
            THEN RemovedRight(RemoveRecursive(h, mapRoot, h[root].right, kref), root)
          ELSE IF h[root].left = Null
            THEN RemoveHere(h, root, InOrderSuccessor(h, mapRoot, root), h[root].right)
          ELSE IF h[root].right = Null
            THEN RemoveHere(h, root, InOrderSuccessor(h, mapRoot, root), h[root].left)
          ELSE RemoveSwapped(SwapPairs(h, root, InOrderSuccessor(h, mapRoot, root)),
                             mapRoot, root, InOrderSuccessor(h, mapRoot, root))

\* ---- public methods as functions of the map's state ----
\* the branch of emplace that inserts; p is what InsertRecursive returned
\* the failure left emplace before root_ and size_ were written
EmplaceThrown(root, sz, p) ==
  [heap |-> p.heap, root |-> root, size |-> sz, it |-> end, insertion |-> FALSE,
   deleted |-> <<>>, trace |-> p.trace, failed |-> TRUE]

\* emplace that counts the entry before it calls InsertRecursive
Emplaced_CountedFirst(root, sz, p) ==
  IF p.failed THEN [EmplaceThrown(root, sz, p) EXCEPT !.size = sz + 1]
  ELSE [heap |-> p.heap, root |-> p.root, size |-> sz + 1, it |-> p.it,
        insertion |-> TRUE, deleted |-> <<>>, trace |-> p.trace, failed |-> FALSE]

Emplaced(root, sz, p) ==
  IF p.failed THEN EmplaceThrown(root, sz, p)
  ELSE [heap |-> p.heap, root |-> p.root, size |-> sz + 1, it |-> p.it,
        insertion |-> TRUE, deleted |-> <<>>, trace |-> p.trace, failed |-> FALSE]

NotEmplaced(h, root, sz, found) ==
  [heap |-> h, root |-> root, size |-> sz, it |-> found, insertion |-> FALSE,
   deleted |-> <<>>, trace |-> <<>>, failed |-> FALSE]

\* emplace that counts the entry whether or not it inserted one
emplace_AlwaysCounts(h, root, sz, k, v, e) ==
  IF find(h, root, k) = end
    THEN Emplaced(root, sz, InsertRecursive(h, root, k, v, e))
    ELSE [NotEmplaced(h, root, sz, find(h, root, k)) EXCEPT !.size = sz + 1]

\* emplace without the find() guard: InsertRecursive overwrites an equal key
emplace_NoFind(h, root, sz, k, v, e) ==
  Emplaced(root, sz, InsertRecursive(h, root, k, v, e))

\* emplace: [heap, root, size, it, insertion, trace]
emplace(h, root, sz, k, v, e) ==
  IF find(h, root, k) = end
    THEN Emplaced(root, sz, InsertRecursive(h, root, k, v, e))
    ELSE NotEmplaced(h, root, sz, find(h, root, k))

\* the branch of erase(iterator) that removes; r is what RemoveRecursive returned
Erased(sz, r, iter) ==
  [heap |-> r.heap, root |-> r.root, size |-> sz - 1, it |-> iter, deleted |-> r.deleted,
   trace |-> r.trace]

NotErased(h, root, sz, iter) ==
  [heap |-> h, root |-> root, size |-> sz, it |-> iter, deleted |-> <<>>,
   trace |-> <<>>]

\* erase(iterator) that returns its argument instead of RemoveRecursive's iterator
ReturnedIterator_Argument(r, iter) == iter

\* what erase(iterator) returns: ret.first
ReturnedIterator(r, iter) == r.it

ErasedAt(sz, r, iter) == Erased(sz, r, ReturnedIterator(r, iter))

\* erase(iterator): [heap, root, size, it, deleted, trace]
erase(h, root, sz, iter) ==
  IF iter = end
    THEN NotErased(h, root, sz, iter)
    ELSE ErasedAt(sz, RemoveRecursive(h, root, root, iter), iter)

\* return 0; / return 1; after the map's state r
Count(r, c) ==
  [heap |-> r.heap, root |-> r.root, size |-> r.size, deleted |-> r.deleted,
   trace |-> r.trace, count |-> c]

\* erase(key) without the early return for an absent key
eraseKey_NoEarlyReturn(h, root, sz, k) ==
  Count(erase(h, root, sz, find(h, root, k)), 1)

\* erase(const key_type&): [heap, root, size, deleted, trace, count]
eraseKey(h, root, sz, k) ==
  IF find(h, root, k) = end
    THEN Count(NotErased(h, root, sz, end), 0)
    ELSE Count(erase(h, root, sz, find(h, root, k)), 1)

\* std::find_if(begin(), end(), pred) of lower_bound
RECURSIVE FindIfLoop(_, _, _, _)
FindIfLoop(h, root, first, k) ==
  IF first = end THEN end
  ELSE IF ~Compare(h[first].first, k) THEN first
  ELSE FindIfLoop(h, root, InOrderSuccessor(h, root, first), k)

\* lower_bound whose predicate is compare(k, v.first): the first greater key
RECURSIVE FindIfGreaterLoop(_, _, _, _)
FindIfGreaterLoop(h, root, first, k) ==
  IF first = end THEN end
  ELSE IF Compare(k, h[first].first) THEN first
  ELSE FindIfGreaterLoop(h, root, InOrderSuccessor(h, root, first), k)

lower_bound_StrictlyGreater(h, root, k) == FindIfGreaterLoop(h, root, begin(h, root), k)

lower_bound(h, root, k) == FindIfLoop(h, root, begin(h, root), k)

size(sz) == sz

empty(root) == root = Null

\* the loop of clear(): [heap, root, size, deleted, steps, stuck, trace]; stuck
\* stands for the loop handing erase an end() iterator while the map is not empty
RECURSIVE ClearLoop(_, _, _, _, _, _, _)

\* iter = erase(iter); r is what erase returned
ClearStep(r, deleted, steps, tr) ==
  ClearLoop(r.heap, r.root, r.size, r.it, deleted \o r.deleted, steps + 1, tr \o r.trace)

ClearLoop(h, root, sz, iter, deleted, steps, tr) ==
  IF empty(root) \/ iter = end
    THEN [heap |-> h, root |-> root, size |-> sz, deleted |-> deleted,
          steps |-> steps, stuck |-> ~empty(root), trace |-> tr]
    ELSE ClearStep(erase(h, root, sz, iter), deleted, steps, tr)

\* clear() that resets root_ and size_ and erases nothing
clear_DropsRoot(h, root, sz) ==
  [heap |-> h, root |-> Null, size |-> 0, deleted |-> <<>>, steps |-> 0,
   stuck |-> FALSE, trace |-> <<>>]

clear(h, root, sz) == ClearLoop(h, root, sz, begin(h, root), <<>>, 0, <<>>)

\* operator[] that returns through the stale end() iterator after inserting
subscript_StaleIterator(h, root, sz, k, e) ==
  IF find(h, root, k) = end
    THEN [emplace(h, root, sz, k, DefaultValue, e) EXCEPT !.it = end]
    ELSE NotEmplaced(h, root, sz, find(h, root, k))

\* operator[](key): the record of emplace, it the Entry the returned T& is in
subscript(h, root, sz, k, e) ==
  IF find(h, root, k) = end
    THEN emplace(h, root, sz, k, DefaultValue, e)
    ELSE NotEmplaced(h, root, sz, find(h, root, k))

\* ---- the state machine ----
Init ==
  /\ heap = <<>>
  /\ root_ = Null
  /\ size_ = 0
  /\ it = end
  /\ lastOp = "Map"
  /\ argKey = 0
  /\ retBool = FALSE
  /\ retCount = 0
  /\ trace = <<>>
  /\ inserted = <<>>
  /\ freed = <<>>
  /\ other_root = Null
  /\ other_size = 0
  /\ argMaps = <<>>
  /\ later = 0

Live(e) == e \in DOMAIN heap

Remove(f, k) == [x \in DOMAIN f \ {k} |-> f[x]]

Record(f, k, v) ==
  IF k \in DOMAIN f THEN f ELSE [x \in DOMAIN f \cup {k} |-> IF x = k THEN v ELSE f[x]]

\* what New<Entry> can return when emplace of k allocates: any free address
Fresh(k) == IF find(heap, root_, k) = end THEN Addrs \ DOMAIN heap ELSE {Null}

\* the operation op(k) returns: r holds the map's new state and trace
Return(op, k, r, iter, b, c, hist) ==
  /\ heap' = r.heap
  /\ root_' = r.root
  /\ size_' = r.size
  /\ it' = iter
  /\ lastOp' = op
  /\ argKey' = k
  /\ retBool' = b
  /\ retCount' = c
  /\ trace' = r.trace
  /\ inserted' = hist
  /\ freed' = r.deleted
  /\ argMaps' = <<>>
  /\ UNCHANGED <<other_root, other_size, later>>

InsertReturn(k, v, r) ==
  Return("insert", k, r, r.it, r.insertion, 0, Record(inserted, k, v))

\* insert(pair) / emplace(k, v)
Insert(k, v) ==
  \E e \in Fresh(k) : InsertReturn(k, v, emplace(heap, root_, size_, k, v, e))

\* insert(pair) / emplace(k, v) of an absent key while New<Entry> fails: the
\* caller gets the failure instead of a Pair<iterator, bool>
InsertFailsReturn(k, r) ==
  Return(IF r.failed THEN "insert_throws" ELSE "insert", k, r, end, FALSE, 0, inserted)

InsertFails(k, v) ==
  /\ find(heap, root_, k) = end
  /\ InsertFailsReturn(k, emplace(heap, root_, size_, k, v, NoMemory))

EraseKeyReturn(k, r) ==
  Return("erase_key", k, r, end, FALSE, r.count, Remove(inserted, k))

\* erase(const key_type&)
EraseKey(k) == EraseKeyReturn(k, eraseKey(heap, root_, size_, k))

EraseIterReturn(k, r) ==
  Return("erase_iter", k, r, r.it, FALSE, 0, Remove(inserted, k))

\* it = erase(it), for the end() iterator or an iterator at a live Entry
EraseIter ==
  /\ it = end \/ Live(it)
  /\ EraseIterReturn(IF it = end THEN 0 ELSE heap[it].first,
                     erase(heap, root_, size_, it))

SubscriptReturn(k, r) ==
  Return("subscript", k, r, r.it, FALSE, 0, Record(inserted, k, DefaultValue))

\* operator[](key)
Subscript(k) ==
  \E e \in Fresh(k) : SubscriptReturn(k, subscript(heap, root_, size_, k, e))

\* operator[](key) of an absent key while New<Entry> fails
SubscriptFailsReturn(k, r) ==
  Return(IF r.failed THEN "subscript_throws" ELSE "subscript", k, r, end, FALSE, 0,
         inserted)

SubscriptFails(k) ==
  /\ find(heap, root_, k) = end
  /\ SubscriptFailsReturn(k, subscript(heap, root_, size_, k, NoMemory))

\* an operation that only returns an iterator
Observe(op, k, result) ==
  /\ it' = result
  /\ lastOp' = op
  /\ argKey' = k
  /\ retBool' = FALSE
  /\ retCount' = 0
  /\ trace' = <<>>
  /\ freed' = <<>>
  /\ argMaps' = <<>>
  /\ UNCHANGED <<heap, root_, size_, inserted, other_root, other_size, later>>

\* it = find(k)
Find(k) == Observe("find", k, find(heap, root_, k))

\* it = lower_bound(k)
LowerBound(k) == Observe("lower_bound", k, lower_bound(heap, root_, k))

\* it = begin()
Begin == Observe("begin", 0, begin(heap, root_))

\* it = end()
End == Observe("end", 0, end)

\* ++it, for an iterator at a live Entry
Increment ==
  /\ it # end /\ Live(it)
  /\ Observe("increment", heap[it].first, InOrderSuccessor(heap, root_, it))

ClearReturn(r) ==
  /\ ~r.stuck
  /\ Return("clear", 0, r, end, FALSE, r.steps, <<>>)

\* clear()
Clear == ClearReturn(clear(heap, root_, size_))

Next ==
  \/ \E k \in Keys, v \in Values : Insert(k, v)
  \/ \E k \in Keys : EraseKey(k)
  \/ EraseIter
  \/ \E k \in Keys : Subscript(k)
  \/ \E k \in Keys : Find(k)
  \/ \E k \in Keys : LowerBound(k)
  \/ Begin
  \/ End
  \/ Increment
  \/ Clear
  \/ \E k \in Keys, v \in Values : InsertFails(k, v)
  \/ \E k \in Keys : SubscriptFails(k)

Spec == Init /\ [][Next]_vars

\* ---- scripted insertions into an empty map, then erases ----
Ascending == <<1, 2, 3, 4, 5, 6, 7>>

Mixed == <<5, 3, 8, 1, 4, 7, 9>>

Scripts == {Ascending, Mixed}

ScriptKeys == {s[i] : s \in Scripts, i \in 1..Len(Ascending)}

\* the map holds what the first size_ insertions of script s put there
Scripted(s) ==
  /\ lastOp \in {"Map", "insert"}
  /\ size_ <= Len(s)
  /\ DOMAIN inserted = {s[i] : i \in 1..size_}

\* insert(MakePair(k, v)) of the next key of s; New<Entry> returns the Entries
\* at consecutive addresses
ScriptInsert(s) ==
  /\ Scripted(s)
  /\ size_ < Len(s)
  /\ InsertReturn(s[size_ + 1], MaxVal,
                  emplace(heap, root_, size_, s[size_ + 1], MaxVal, size_ + 1))

\* erase(k) of a stored key; no insertion follows an erase
ScriptErase(k) ==
  /\ k \in DOMAIN inserted
  /\ EraseKey(k)

NextScenario ==
  \/ \E s \in Scripts : ScriptInsert(s)
  \/ \E k \in ScriptKeys : ScriptErase(k)

SpecScenario == Init /\ [][NextScenario]_vars

\* ---- two Map objects: this map (1) and other (2), their Entries in one heap ----
TwoKeys == 1..(MaxKey - 1)

TwoAddrs == 1..(2 * (MaxKey - 1))

Maps == {1, 2}

MapRoot(m) == IF m = 1 THEN root_ ELSE other_root

MapSize(m) == IF m = 1 THEN size_ ELSE other_size

\* New<Entry> hands out the free Entry at the lowest address
NextFree(h) ==
  IF TwoAddrs \ DOMAIN h = {} THEN NoMemory
  ELSE CHOOSE e \in TwoAddrs \ DOMAIN h : \A f \in TwoAddrs \ DOMAIN h : e <= f

\* the state of an operation's own Map, r, and of the Map it was given
WithSource(r, sroot, ssize) ==
  [heap |-> r.heap, root |-> r.root, size |-> r.size, src_root |-> sroot,
   src_size |-> ssize, deleted |-> r.deleted, trace |-> r.trace]

\* Map(Map&& other) : root_(other.root_), size_(other.size_), then other is reset
MoveConstruct(h, oroot, osize) ==
  [heap |-> h, root |-> oroot, size |-> osize, src_root |-> Null, src_size |-> 0,
   deleted |-> <<>>, trace |-> <<>>]

\* the body of operator=(Map&&) after clear(); c is what clear() left
MoveAfterClear(c, oroot, osize) ==
  [heap |-> c.heap, root |-> oroot, size |-> osize, src_root |-> Null, src_size |-> 0,
   deleted |-> c.deleted, trace |-> c.trace]

\* move assignment that takes the source's tree without clear()
MoveAssign_NoClear(h, root, sz, oroot, osize, same) ==
  IF same
    THEN WithSource(NotErased(h, root, sz, end), root, sz)
    ELSE MoveConstruct(h, oroot, osize)

\* operator=(Map&& other); same stands for this == &other
MoveAssign(h, root, sz, oroot, osize, same) ==
  IF same
    THEN WithSource(NotErased(h, root, sz, end), root, sz)
    ELSE MoveAfterClear(clear(h, root, sz), oroot, osize)

\* for (const auto& p : other) emplace(p); iter is the loop's iterator into other
RECURSIVE CopyLoop(_, _, _, _, _, _, _)

\* ++iter after emplace(p) returned r
CopyStep(r, oroot, iter, deleted, tr) ==
  CopyLoop(r.heap, r.root, r.size, oroot, InOrderSuccessor(r.heap, oroot, iter),
           deleted, tr \o r.trace)

CopyLoop(h, root, sz, oroot, iter, deleted, tr) ==
  IF iter = end
    THEN [heap |-> h, root |-> root, size |-> sz, deleted |-> deleted, trace |-> tr]
    ELSE CopyStep(emplace(h, root, sz, h[iter].first, h[iter].second, NextFree(h)),
                  oroot, iter, deleted, tr)

\* a copy that takes the source's root_ and size_ and shares its Entries
CopyConstruct_Shallow(h, oroot, osize) ==
  [heap |-> h, root |-> oroot, size |-> osize, src_root |-> oroot, src_size |-> osize,
   deleted |-> <<>>, trace |-> <<>>]

\* Map(const Map& other), into a Map with root_ = nullptr and size_ = 0
CopyConstruct(h, oroot, osize) ==
  WithSource(CopyLoop(h, Null, 0, oroot, begin(h, oroot), <<>>, <<>>), oroot, osize)

\* the loop of operator=(const Map&) after clear(); c is what clear() left
CopyAfterClear(c, oroot, osize) ==
  WithSource(CopyLoop(c.heap, c.root, c.size, oroot, begin(c.heap, oroot),
                      c.deleted, c.trace),
             oroot, osize)

\* operator=(const Map& other); same stands for this == &other
CopyAssign(h, root, sz, oroot, osize, same) ==
  IF same
    THEN WithSource(NotErased(h, root, sz, end), root, sz)
    ELSE CopyAfterClear(clear(h, root, sz), oroot, osize)

\* it->second = v through an iterator at the Entry e
AssignSecond(h, e, v) == [h EXCEPT ![e].second = v]

\* the constructions and assignments from a Map
FromMap == {"move_construct", "move_assign", "copy_construct", "copy_assign"}

\* the operation op of Map d, given Map s (s = d: given no other Map), returns
TwoReturn(op, d, s, k, r) ==
  /\ heap' = r.heap
  /\ root_' = IF d = 1 THEN r.root ELSE IF s = 1 THEN r.src_root ELSE root_
  /\ size_' = IF d = 1 THEN r.size ELSE IF s = 1 THEN r.src_size ELSE size_
  /\ other_root' = IF d = 2 THEN r.root ELSE IF s = 2 THEN r.src_root ELSE other_root
  /\ other_size' = IF d = 2 THEN r.size ELSE IF s = 2 THEN r.src_size ELSE other_size
  /\ it' = end
  /\ lastOp' = op
  /\ argKey' = k
  /\ argMaps' = <<d, s>>
  /\ retBool' = FALSE
  /\ retCount' = 0
  /\ trace' = r.trace
  /\ freed' = r.deleted
  /\ later' = IF op \in FromMap \/ later > 0 THEN later + 1 ELSE later
  /\ UNCHANGED inserted

\* m.insert(MakePair(k, v))
TwoInsert(m, k, v) ==
  /\ later < MaxLater
  /\ later = 0 => (m = 2 \/ other_root = Null)
  /\ NextFree(heap) # NoMemory
  /\ TwoReturn("insert", m, m, k,
               WithSource(emplace(heap, MapRoot(m), MapSize(m), k, v, NextFree(heap)),
                          MapRoot(m), MapSize(m)))

\* m.erase(k)
TwoErase(m, k) ==
  /\ later \in 1..(MaxLater - 1)
  /\ TwoReturn("erase_key", m, m, k,
               WithSource(eraseKey(heap, MapRoot(m), MapSize(m), k),
                          MapRoot(m), MapSize(m)))

\* m.find(k)->second = T() for a stored key k
TwoAssign(m, k) ==
  /\ later \in 1..(MaxLater - 1)
  /\ find(heap, MapRoot(m), k) # end
  /\ TwoReturn("assign", m, m, k,
               WithSource(NotErased(AssignSecond(heap, find(heap, MapRoot(m), k),
                                                 DefaultValue),
                                    MapRoot(m), MapSize(m), end),
                          MapRoot(m), MapSize(m)))

\* Map d(std::move(s)) where d holds no Entry
TwoMoveConstruct(d, s) ==
  /\ later < MaxLater
  /\ d # s
  /\ MapRoot(d) = Null
  /\ TwoReturn("move_construct", d, s, 0, MoveConstruct(heap, MapRoot(s), MapSize(s)))

\* d = std::move(s)
TwoMoveAssign(d, s) ==
  /\ later < MaxLater
  /\ TwoReturn("move_assign", d, s, 0,
               MoveAssign(heap, MapRoot(d), MapSize(d), MapRoot(s), MapSize(s), d = s))

\* Map d(s) where d holds no Entry
TwoCopyConstruct(d, s) ==
  /\ later < MaxLater
  /\ d # s
  /\ MapRoot(d) = Null
  /\ TwoReturn("copy_construct", d, s, 0, CopyConstruct(heap, MapRoot(s), MapSize(s)))

\* d = s
TwoCopyAssign(d, s) ==
  /\ later < MaxLater
  /\ TwoReturn("copy_assign", d, s, 0,
               CopyAssign(heap, MapRoot(d), MapSize(d), MapRoot(s), MapSize(s), d = s))

NextTwo ==
  \/ \E m \in Maps, k \in TwoKeys, v \in Values : TwoInsert(m, k, v)
  \/ \E m \in Maps, k \in TwoKeys : TwoErase(m, k)
  \/ \E m \in Maps, k \in TwoKeys : TwoAssign(m, k)
  \/ \E d \in Maps, s \in Maps : TwoMoveConstruct(d, s)
  \/ \E d \in Maps, s \in Maps : TwoMoveAssign(d, s)
  \/ \E d \in Maps, s \in Maps : TwoCopyConstruct(d, s)
  \/ \E d \in Maps, s \in Maps : TwoCopyAssign(d, s)

SpecTwo == Init /\ [][NextTwo]_vars

\* ---- what the claims speak of ----
\* walks are cut at Depth links, so they end on any heap, well formed or not
Depth == MaxKey + 1

Took(b) == \E i \in DOMAIN trace : trace[i] = b

RECURSIVE Subtree(_, _, _)
Subtree(h, e, d) ==
  IF e = Null \/ d = 0 \/ e \notin DOMAIN h THEN {}
  ELSE {e} \cup Subtree(h, h[e].left, d - 1) \cup Subtree(h, h[e].right, d - 1)

Reachable(h, root) == Subtree(h, root, Depth)

RECURSIVE TrueHeight(_, _, _)
TrueHeight(h, e, d) ==
  IF e = Null \/ d = 0 \/ e \notin DOMAIN h THEN 0
  ELSE 1 + GPR_MAX(TrueHeight(h, h[e].left, d - 1), TrueHeight(h, h[e].right, d - 1))

\* the Entries visited from e by operator++ until end(), at most fuel + 1 of them
RECURSIVE IterFrom(_, _, _, _)
IterFrom(h, root, e, fuel) ==
  IF e = end THEN <<>>
  ELSE IF fuel = 0 \/ e \notin DOMAIN h THEN <<e>>
  ELSE <<e>> \o IterFrom(h, root, InOrderSuccessor(h, root, e), fuel - 1)

IterNodes(h, root) == IterFrom(h, root, begin(h, root), Depth)

KeyAt(h, e) == IF e \in DOMAIN h THEN h[e].first ELSE 0

IterKeys(h, root) ==
  [i \in 1..Len(IterNodes(h, root)) |-> KeyAt(h, IterNodes(h, root)[i])]

Stored == DOMAIN inserted

Above(S, x) == {j \in S : Compare(x, j)}

NotBelow(S, x) == {j \in S : ~Compare(j, x)}

Least(S) == CHOOSE m \in S : \A j \in S : ~Compare(j, m)

\* the iterator e is at a reachable Entry whose key is k
PositionedAt(h, root, e, k) == e \in Reachable(h, root) /\ h[e].first = k

MapUnchanged == heap' = heap /\ root_' = root_ /\ size_' = size_

\* C1: after any sequence of operations every reachable Entry has only smaller
\* keys in its left subtree and only greater keys in its right subtree.
C1_BSTOrder ==
  \A n \in Reachable(heap, root_) :
    /\ \A m \in Subtree(heap, heap[n].left, Depth) : Compare(heap[m].first, heap[n].first)
    /\ \A m \in Subtree(heap, heap[n].right, Depth) : Compare(heap[n].first, heap[m].first)

\* a two-children erase has swapped pairs and left at least a parent and a child
C1_Witness ==
  /\ lastOp \in {"erase_key", "erase_iter"}
  /\ Took("swap")
  /\ root_ # Null
  /\ heap[root_].left # Null \/ heap[root_].right # Null

\* C2: after any sequence of inserts and erases the true heights of the two
\* subtrees of every reachable Entry differ by at most 1.
C2_AVLBalance ==
  \A n \in Reachable(heap, root_) :
    LET d == TrueHeight(heap, heap[n].left, Depth) - TrueHeight(heap, heap[n].right, Depth)
    IN d \in {-1, 0, 1}

\* an erase has rebalanced with a double rotation
C2_Witness ==
  /\ lastOp \in {"erase_key", "erase_iter"}
  /\ Took("RotateLeft") /\ Took("RotateRight")

\* C3: size() is the number of reachable Entries and the number of increments
\* from begin() to end(); empty() holds exactly when size() is 0.
C3_SizeCorrect ==
  /\ size(size_) = Cardinality(Reachable(heap, root_))
  /\ size(size_) = Len(IterNodes(heap, root_))
  /\ empty(root_) <=> size(size_) = 0

\* an erase through an iterator has taken the map from full to one less
C3_Witness ==
  /\ lastOp = "erase_iter"
  /\ argKey # 0
  /\ size_ = MaxKey - 1

\* C4: begin() and repeated operator++ visit every stored key exactly once in
\* strictly increasing order and then reach end(); each increment moves to the
\* least stored key greater than the current one.
C4_InOrderIteration ==
  LET ks == IterKeys(heap, root_)
  IN /\ Len(ks) = Cardinality(Stored)
     /\ \A i \in DOMAIN ks : ks[i] \in Stored
     /\ \A i, j \in DOMAIN ks : i < j => Compare(ks[i], ks[j])
     /\ lastOp = "begin" =>
          IF Stored = {} THEN it = end
          ELSE PositionedAt(heap, root_, it, Least(Stored))
     /\ lastOp = "increment" =>
          IF Above(Stored, argKey) = {} THEN it = end
          ELSE PositionedAt(heap, root_, it, Least(Above(Stored, argKey)))

\* an increment from an Entry without right child found its successor by
\* re-descent from the root
C4_Witness ==
  /\ lastOp = "increment"
  /\ it # end
  /\ heap[find(heap, root_, argKey)].right = Null

\* C5: find(k) is at an Entry with key k and the value of k's first insertion
\* for every stored key, and is end() for every key that is not stored.
C5_FindRoundTrip ==
  \A k \in Keys :
    LET f == find(heap, root_, k)
    IN IF k \in Stored
         THEN f # end /\ f \in Reachable(heap, root_)
              /\ heap[f].first = k /\ heap[f].second = inserted[k]
         ELSE f = end

\* a two-children erase has swapped pairs between Entries and keys of both
\* values are still stored
C5_Witness ==
  /\ Took("swap")
  /\ \E j, k \in Stored : inserted[j] # inserted[k]

\* C6: emplace of a stored key returns false and an iterator at the existing
\* entry and changes nothing; emplace of an absent key returns true and an
\* iterator at the new entry and increases size by exactly 1.
C6_FirstInsertWins ==
  [][lastOp' = "insert" =>
       IF argKey' \in Stored
         THEN /\ retBool' = FALSE
              /\ PositionedAt(heap, root_, it', argKey')
              /\ MapUnchanged
         ELSE /\ retBool' = TRUE
              /\ it' \notin DOMAIN heap
              /\ PositionedAt(heap', root_', it', argKey')
              /\ heap'[it'].second = inserted'[argKey']
              /\ size_' = size_ + 1]_vars

\* emplace has returned false at an entry whose value no emplace argument equals
C6_Witness ==
  /\ lastOp = "insert"
  /\ ~retBool
  /\ it # end
  /\ heap[it].second = DefaultValue

\* C7: erase(k) returns 1 exactly when k is stored; then k is not findable,
\* size is one less and every other key keeps its value; otherwise it returns 0
\* and keys, values, shape and size are unchanged.
C7_EraseByKey ==
  [][lastOp' = "erase_key" =>
       IF argKey' \in Stored
         THEN /\ retCount' = 1
              /\ find(heap', root_', argKey') = end
              /\ size_' = size_ - 1
              /\ \A j \in Stored \ {argKey'} :
                   LET f == find(heap, root_, j)
                       g == find(heap', root_', j)
                   IN /\ f # end /\ g # end
                      /\ heap'[g].first = j
                      /\ heap'[g].second = heap[f].second
         ELSE /\ retCount' = 0
              /\ MapUnchanged]_vars

\* erase(k) has removed a key and rebalanced the rest with a rotation
C7_Witness ==
  /\ lastOp = "erase_key"
  /\ retCount = 1
  /\ Took("RotateLeft") \/ Took("RotateRight")

\* C8: erase(it) at key X removes X and returns end() if X was the greatest
\* key, and otherwise an iterator at a reachable Entry holding the least stored
\* key greater than X; erase(end()) changes nothing and returns end().
C8_EraseReturnsSuccessor ==
  [][lastOp' = "erase_iter" =>
       IF it = end
         THEN it' = end /\ MapUnchanged
         ELSE LET X == heap[it].first
              IN /\ argKey' = X
                 /\ find(heap', root_', X) = end
                 /\ IF Above(Stored, X) = {} THEN it' = end
                    ELSE PositionedAt(heap', root_', it', Least(Above(Stored, X)))]_vars

\* a two-children erase through an iterator has rotated on unwind and returned
\* an iterator that is not end()
C8_Witness ==
  /\ lastOp = "erase_iter"
  /\ Took("swap")
  /\ Took("RotateLeft") \/ Took("RotateRight")
  /\ it # end

\* C9: operator[] on an absent key inserts it with a default-constructed value,
\* increases size by 1 and returns a reference into the new entry; on a stored
\* key it returns a reference into the existing entry and changes nothing.
C9_Subscript ==
  [][lastOp' = "subscript" =>
       IF argKey' \in Stored
         THEN /\ PositionedAt(heap, root_, it', argKey')
              /\ it' = find(heap, root_, argKey')
              /\ MapUnchanged
         ELSE /\ size_' = size_ + 1
              /\ find(heap', root_', argKey') # end
              /\ it' = find(heap', root_', argKey')
              /\ it' \notin DOMAIN heap
              /\ PositionedAt(heap', root_', it', argKey')
              /\ heap'[it'].second = DefaultValue]_vars

\* operator[] has inserted an absent key and the insertion has rotated
C9_Witness ==
  /\ lastOp = "subscript"
  /\ Took("New")
  /\ Took("RotateLeft") \/ Took("RotateRight")

\* C10: lower_bound(k) returns an iterator at the least stored key that is not
\* less than k, or end() when every stored key is less than k, and does not
\* modify the map.
C10_LowerBound ==
  [][lastOp' = "lower_bound" =>
       /\ MapUnchanged
       /\ IF NotBelow(Stored, argKey') = {} THEN it' = end
          ELSE PositionedAt(heap, root_, it', Least(NotBelow(Stored, argKey')))]_vars

\* lower_bound of a key that is not stored has stopped at the next greater key
C10_Witness ==
  /\ lastOp = "lower_bound"
  /\ argKey \notin Stored
  /\ it # end

\* the Entry e keeps its place in memory and its pair over the step
KeepsEntry(e) ==
  /\ e \in DOMAIN heap'
  /\ heap'[e].first = heap[e].first
  /\ heap'[e].second = heap[e].second

\* the step is a call of insert or erase on the map
InsertOrErase == lastOp' \in {"insert", "erase_key", "erase_iter"}

\* the step erases a two-children Entry whose in-order successor holds key k
ErasesBelowSuccessor(k) ==
  /\ lastOp' \in {"erase_key", "erase_iter"}
  /\ \E i \in DOMAIN trace' : trace'[i] = "swap"
  /\ Above(Stored, argKey') # {}
  /\ k = Least(Above(Stored, argKey'))

\* C13 as stated: an iterator at an Entry with key K and value V, taken before
\* an insert or erase of a different key, is afterwards still at an allocated
\* Entry holding K and V, for every shape and every such key.
C13_IteratorStability ==
  [][InsertOrErase =>
       \A e \in Reachable(heap, root_) :
         heap[e].first # argKey' => KeepsEntry(e)]_vars

\* C13 amended: the same, except for the iterator at the in-order successor of
\* an erased two-children Entry.
C13_IteratorStabilityButSuccessor ==
  [][InsertOrErase =>
       \A e \in Reachable(heap, root_) :
         (heap[e].first # argKey' /\ ~ErasesBelowSuccessor(heap[e].first))
           => KeepsEntry(e)]_vars

\* a two-children erase has rebalanced a map that keeps two further entries
C13_Witness ==
  /\ lastOp \in {"erase_key", "erase_iter"}
  /\ Took("swap")
  /\ Took("RotateLeft") \/ Took("RotateRight")
  /\ size_ >= 2

\* no address occurs twice in the sequence q
NoRepeat(q) == \A i, j \in DOMAIN q : q[i] = q[j] => i = j

Range(q) == {q[i] : i \in DOMAIN q}

\* the loop of clear() started here runs into end() with entries left
ClearStuck == clear(heap, root_, size_).stuck

\* C15: in every state clear() leaves its loop without handing erase an end()
\* iterator while entries are left; it takes exactly size() erase steps, and on
\* exit root_ is null, size is 0 and every Entry was freed exactly once.
C15_ClearFreesAll ==
  [](~ClearStuck) /\
  [][lastOp' = "clear" =>
       /\ retCount' = size(size_)
       /\ root_' = Null
       /\ size_' = 0
       /\ NoRepeat(freed')
       /\ Range(freed') = Reachable(heap, root_)
       /\ Range(freed') = DOMAIN heap
       /\ DOMAIN heap' = {}]_vars

\* clear() has emptied a full map, through a two-children removal and a rotation
C15_Witness ==
  /\ lastOp = "clear"
  /\ retCount = MaxKey
  /\ Took("swap") \/ Took("RotateLeft") \/ Took("RotateRight")
  /\ Len(freed) = MaxKey

\* the allocation of the step's operation failed
AllocationFailed == \E i \in DOMAIN trace' : trace'[i] = "bad_alloc"

\* C17: when the allocation of the new Entry fails during insert, emplace or
\* operator[] of an absent key, the caller gets the failure and the map's
\* Entries, links, cached heights, root and size are exactly as before the call.
C17_FailedInsertChangesNothing ==
  [][AllocationFailed =>
       /\ lastOp' \in {"insert_throws", "subscript_throws"}
       /\ argKey' \notin Stored
       /\ MapUnchanged
       /\ find(heap', root_', argKey') = end]_vars

\* the allocation failed below the root of a map that holds all keys but one
C17_Witness ==
  /\ lastOp \in {"insert_throws", "subscript_throws"}
  /\ Took("bad_alloc")
  /\ size_ = MaxKey - 1
  /\ argKey \notin Stored

\* C18: in every state between public operations the cached height of every
\* reachable Entry is the true height of its subtree: 1 at a leaf, and
\* 1 + max of the children's true heights otherwise.
C18_CachedHeights ==
  \A n \in Reachable(heap, root_) :
    /\ heap[n].height = TrueHeight(heap, n, Depth)
    /\ heap[n].height =
         1 + GPR_MAX(EntryHeight(heap, heap[n].left), EntryHeight(heap, heap[n].right))

\* an erase has rotated and left a root above two children
C18_Witness ==
  /\ lastOp \in {"erase_key", "erase_iter"}
  /\ Took("RotateLeft") \/ Took("RotateRight")
  /\ root_ # Null
  /\ heap[root_].height = 2
  /\ size_ = 3

TwoChildren(e) == heap[e].left # Null /\ heap[e].right # Null

\* the step freed exactly the Entry f
FreedOnly(f) ==
  /\ freed' = <<f>>
  /\ DOMAIN heap \ DOMAIN heap' = {f}
  /\ DOMAIN heap' \subseteq DOMAIN heap

\* what an erase does to the Entry victim that held the erased key, successor
\* being the Entry that operator++ reached from it before the erase
EraseFrees(victim, successor) ==
  IF TwoChildren(victim)
    THEN /\ FreedOnly(successor)
         /\ victim \in Reachable(heap', root_')
         /\ heap'[victim].first = heap[successor].first
         /\ heap'[victim].second = heap[successor].second
    ELSE FreedOnly(victim)

EraseAt(victim) == EraseFrees(victim, InOrderSuccessor(heap, root_, victim))

\* C19: an erase of a stored key frees exactly one Entry.  With at most one
\* child it is the Entry that held the key.  With two children it is the Entry
\* that held the in-order successor, which an iterator there is left dangling
\* at, while the Entry that held the erased key stays in the map and holds the
\* successor's key and value, which an iterator there now dereferences to.
C19_EraseFreesOneNode ==
  [][(lastOp' \in {"erase_key", "erase_iter"} /\ argKey' \in Stored) =>
       EraseAt(find(heap, root_, argKey'))]_vars

\* erase(key) of a two-children Entry in a full map has freed one Entry
C19_Witness ==
  /\ lastOp = "erase_key"
  /\ Took("swap")
  /\ Len(freed) = 1
  /\ size_ = MaxKey - 1

\* the Entries met on all paths from e, each counted once per path to it
RECURSIVE PathCount(_, _, _)
PathCount(h, e, d) ==
  IF e = Null \/ e \notin DOMAIN h THEN 0
  ELSE IF d = 0 THEN 1
  ELSE 1 + PathCount(h, h[e].left, d - 1) + PathCount(h, h[e].right, d - 1)

\* the allocated Entries are the ones reachable from root_, each by one path
OwnedExactly ==
  /\ DOMAIN heap = Reachable(heap, root_) \cup Reachable(heap, other_root)
  /\ PathCount(heap, root_, Depth) = Cardinality(Reachable(heap, root_))
  /\ \A n \in DOMAIN heap : heap[n].left \in DOMAIN heap \cup {Null}
  /\ \A n \in DOMAIN heap : heap[n].right \in DOMAIN heap \cup {Null}

\* a step that allocates is an insertion of an absent key, of one Entry
AllocatesOnlyOnInsert ==
  DOMAIN heap' \ DOMAIN heap # {} =>
    /\ lastOp' \in {"insert", "subscript"}
    /\ argKey' \notin Stored
    /\ DOMAIN heap' \ DOMAIN heap = {find(heap', root_', argKey')}

\* a step that frees is an erase or clear(), of Entries allocated until then
FreesOnlyOnErase ==
  (DOMAIN heap \ DOMAIN heap' # {} \/ freed' # <<>>) =>
    /\ lastOp' \in {"erase_key", "erase_iter", "clear"}
    /\ NoRepeat(freed')
    /\ Range(freed') \subseteq DOMAIN heap
    /\ Range(freed') = DOMAIN heap \ DOMAIN heap'

\* C20: the Entries that are allocated and not freed are exactly the Entries
\* reachable from root_, each by exactly one path; an Entry is allocated only
\* by the insertion of an absent key and freed only by erase or clear(), and
\* only while it is allocated, so never twice.
C20_Ownership ==
  []OwnedExactly /\ [][AllocatesOnlyOnInsert /\ FreesOnlyOnErase]_vars

\* erase(it) has freed one Entry of a full map and the rest is still owned
C20_Witness ==
  /\ lastOp = "erase_iter"
  /\ Len(freed) = 1
  /\ Cardinality(DOMAIN heap) = MaxKey - 1
  /\ size_ = MaxKey - 1

\* ceil(1.4405 * log2(n + 2)) for n = 0 .. 7, at index n + 1
HeightBound == <<2, 3, 3, 4, 4, 5, 5, 5>>

\* the height of the tree: the number of Entries on the longest path from root_
Height == TrueHeight(heap, root_, Len(Ascending) + 1)

\* C16: with n entries, after insertions and erases, the height of the tree is
\* at most ceil(1.4405 * log2(n + 2)); after inserting 1..7 in ascending order
\* into an empty map it is exactly 3, and after inserting 5, 3, 8, 1, 4, 7, 9 it
\* is at most 4.
C16_HeightBound ==
  /\ Height <= HeightBound[size_ + 1]
  /\ size_ = Cardinality(DOMAIN heap)
  /\ (Scripted(Ascending) /\ size_ = Len(Ascending)) => Height = 3
  /\ (Scripted(Mixed) /\ size_ = Len(Mixed)) => Height <= 4

\* all of 1..7 have been inserted in ascending order
C16_Witness ==
  /\ Scripted(Ascending)
  /\ size_ = Len(Ascending)
  /\ Took("RotateLeft")

\* ---- two Maps ----
\* the Entries of the Map rooted at root keep their addresses and contents
KeepsEntries(root) ==
  \A e \in Reachable(heap, root) : e \in DOMAIN heap' /\ heap'[e] = heap[e]

\* the operation left the Map m as it was
MapKept(m) ==
  /\ MapRoot(m)' = MapRoot(m)
  /\ MapSize(m)' = MapSize(m)
  /\ KeepsEntries(MapRoot(m))

\* the step freed exactly the Entries the Map rooted at root held
FreedTree(root) ==
  /\ NoRepeat(freed')
  /\ Range(freed') = Reachable(heap, root)
  /\ DOMAIN heap \ DOMAIN heap' \subseteq Reachable(heap, root)

\* what a move from Map s to Map d does
Moved(d, s) ==
  IF d = s
    THEN heap' = heap /\ MapKept(d) /\ freed' = <<>>
    ELSE /\ MapRoot(s)' = Null
         /\ MapSize(s)' = 0
         /\ begin(heap', MapRoot(s)') = end
         /\ MapRoot(d)' = MapRoot(s)
         /\ MapSize(d)' = MapSize(s)
         /\ Reachable(heap', MapRoot(d)') = Reachable(heap, MapRoot(s))
         /\ KeepsEntries(MapRoot(s))
         /\ DOMAIN heap' \subseteq DOMAIN heap
         /\ FreedTree(MapRoot(d))
         /\ DOMAIN heap' = DOMAIN heap \ Reachable(heap, MapRoot(d))

\* C11: move construction and move assignment leave the source empty and
\* valid and give the destination the source's Entries themselves, none
\* allocated or copied; move assignment first frees every Entry the
\* destination held; a self-move-assignment changes nothing.
C11_Move ==
  [][\A d, s \in Maps :
       (lastOp' \in {"move_construct", "move_assign"} /\ argMaps' = <<d, s>>)
         => Moved(d, s)]_vars

\* a move assignment has freed the destination's full tree and taken another
C11_Witness ==
  /\ lastOp = "move_assign"
  /\ argMaps[1] # argMaps[2]
  /\ Len(freed) = MaxKey - 1
  /\ MapSize(argMaps[1]) = MaxKey - 1

\* the key/value pairs of the Map rooted at root, in iteration order
PairsOf(h, root) ==
  [i \in 1..Len(IterNodes(h, root)) |->
     <<h[IterNodes(h, root)[i]].first, h[IterNodes(h, root)[i]].second>>]

\* search-tree order, balance, cached heights and size of the Map at root
WellFormed(h, root, sz) ==
  /\ sz = Cardinality(Reachable(h, root))
  /\ sz = Len(IterNodes(h, root))
  /\ \A n \in Reachable(h, root) :
       /\ \A m \in Subtree(h, h[n].left, Depth) : Compare(h[m].first, h[n].first)
       /\ \A m \in Subtree(h, h[n].right, Depth) : Compare(h[n].first, h[m].first)
       /\ h[n].height = TrueHeight(h, n, Depth)
       /\ EntryHeight(h, h[n].left) - EntryHeight(h, h[n].right) \in {-1, 0, 1}

\* the New<Entry> calls of the step
Allocations == Cardinality({i \in DOMAIN trace' : trace'[i] = "New"})

\* what a copy from Map s to Map d does
Copied(d, s) ==
  IF d = s
    THEN heap' = heap /\ MapKept(d) /\ freed' = <<>>
    ELSE /\ PairsOf(heap', MapRoot(d)') = PairsOf(heap, MapRoot(s))
         /\ MapSize(d)' = MapSize(s)
         /\ MapKept(s)
         /\ FreedTree(MapRoot(d))
         /\ Allocations = MapSize(s)
         /\ Reachable(heap', MapRoot(d)') \cap Reachable(heap', MapRoot(s)') = {}
         /\ Reachable(heap', MapRoot(d)') \cap (DOMAIN heap \ Range(freed')) = {}
         /\ WellFormed(heap', MapRoot(d)', MapSize(d)')

\* C12: copy construction and copy assignment give the destination the
\* source's key/value sequence in freshly allocated Entries, none shared with
\* the source, with all invariants holding; an insert, erase or value
\* assignment on one of two Maps leaves the other's Entries and size unchanged.
C12_Copy ==
  [][\A d, s \in Maps :
       /\ (lastOp' \in {"copy_construct", "copy_assign"} /\ argMaps' = <<d, s>>)
            => Copied(d, s)
       /\ (lastOp' \in {"insert", "erase_key", "assign"} /\ later' > 0
             /\ argMaps' = <<d, d>> /\ s # d)
            => MapKept(s)]_vars

\* a copy assignment has replaced a full tree by a copy of a full tree
C12_Witness ==
  /\ lastOp = "copy_assign"
  /\ argMaps[1] # argMaps[2]
  /\ size_ = MaxKey - 1
  /\ other_size = MaxKey - 1
  /\ Len(freed) = MaxKey - 1
  /\ Took("RotateLeft")

\* the iterators of Map m: at its Entries, and m.end()
Iterators(m) ==
  {[map_ |-> m, curr_ |-> e] : e \in Reachable(heap, MapRoot(m)) \cup {end}}

\* iterator::operator==: return curr_ == rhs.curr_;
IteratorEquals(a, b) == a.curr_ = b.curr_

\* C14: iterators of two different Maps never compare equal, the two end()
\* iterators included; iterators of one Map compare equal exactly when they
\* are at the same Entry or are both end().
C14_IteratorEquality ==
  /\ \A a \in Iterators(1), b \in Iterators(2) : ~IteratorEquals(a, b)
  /\ \A m \in Maps : \A a, b \in Iterators(m) :
       IteratorEquals(a, b) <=> (a.curr_ = b.curr_)

====
